---- MODULE Spec2Model ----
(***************************************************************************)
(* A model of actions/web_search.py (the multi-provider search client) and *)
(* actions/web_scrape.py (the Selenium page fetcher).                      *)
(*                                                                         *)
(* The two components share no state.  A behaviour of Spec follows either  *)
(* one web_search call or a bounded number of fetch calls; SpecPool        *)
(* follows many concurrent async_browse calls with every step succeeding.  *)
(***************************************************************************)
EXTENDS Naturals, Sequences, FiniteSets, TLC

\* ------------------------------------------------------------------ bounds

\* Largest num_results a caller passes.
MaxNum == 2

\* Longest result list a provider answers with.
MaxResp == 3

\* Fetch calls followed by Spec.
NumCalls == 2

\* Concurrent async_browse calls followed by SpecPool.
NumPoolCalls == 9

\* ----------------------------------------------------------------- strings

\* Python's `t in s` on strings.
Contains(s, t) ==
    \E i \in 1..(Len(s) + 1) :
        /\ i + Len(t) - 1 <= Len(s)
        /\ SubSeq(s, i, i + Len(t) - 1) = t

\* dict.get(key, default)
Get(d, key, default) == IF key \in DOMAIN d THEN d[key] ELSE default

\* The empty dict.
EmptyDict == <<>>

\* =========================================================== web_search.py

Providers == {"tavily", "googleSerp", "googleAPI", "searx", "duckduckgo"}

\* A configured name that no branch of web_search tests for.
UnsupportedProvider == "bing"

SearchApis == Providers \cup {UnsupportedProvider}

\* Providers reached over HTTP by this module, and those reached through a
\* client library.
HttpProviders == {"googleSerp", "googleAPI"}

\* The key under which each provider's reply holds the result list; searx
\* and duckduckgo answer with the list itself.
ResultsKey(api) ==
    CASE api = "tavily" -> "results"
      [] api = "googleSerp" -> "organic"
      [] api = "googleAPI" -> "items"
      [] OTHER -> ""

\* The names each provider gives the link and the snippet of a result.
LinkKey(api) ==
    CASE api = "tavily" -> "url"
      [] api = "duckduckgo" -> "href"
      [] OTHER -> "link"

BodyKey(api) ==
    CASE api = "tavily" -> "content"
      [] api = "duckduckgo" -> "body"
      [] OTHER -> "snippet"

\* Provider results, as (link, title, snippet) with any one of them absent.
Absent == "<absent>"

RawResults ==
    { <<"https://a.example/1", "title a", "text a">>,
      <<"https://b.example/2", "title b", "text b">>,
      <<"https://www.youtube.com/watch?v=1", "title y", "text y">>,
      <<Absent, "title c", "text c">>,
      <<"https://d.example/4", Absent, "text d">>,
      <<"https://e.example/5", "title e", Absent>> }

\* A provider result as the dict the provider sends: only the present keys.
Native(api, raw) ==
    LET keys == <<LinkKey(api), "title", BodyKey(api)>>
        present == {i \in 1..3 : raw[i] # Absent}
    IN  [k \in {keys[i] : i \in present} |->
            raw[CHOOSE i \in present : keys[i] = k]]

NativeResults(api) == {Native(api, raw) : raw \in RawResults}

ResultLists(api) ==
    UNION {[1..n -> NativeResults(api)] : n \in 0..MaxResp}

\* What the provider call can come back with: a transport failure, a body
\* that is not JSON, the JSON value null, a JSON object without the results
\* key, or a result list.
TransportError == [status |-> "error"]
BadJson == [status |-> "text", json |-> "invalid"]
JsonNull == [status |-> "text", json |-> "null"]
JsonValue(v) == [status |-> "text", json |-> "value", value |-> v]

Responses(api) ==
    IF api \notin Providers THEN {TransportError}
    ELSE {TransportError}
         \cup (IF api \in HttpProviders THEN {BadJson, JsonNull} ELSE {})
         \cup (IF ResultsKey(api) # "" THEN {JsonValue(EmptyDict)} ELSE {})
         \cup { JsonValue(IF ResultsKey(api) # ""
                          THEN ResultsKey(api) :> list ELSE list)
                : list \in ResultLists(api) }

\* ---- results of a call

\* json.dumps(obj, ensure_ascii=False, indent=4) of one normalized result;
\* a dict keeps its insertion order: title, href, body.
DumpKeys == <<"title", "href", "body">>

RECURSIVE DumpMembers(_, _, _)
DumpMembers(obj, i, first) ==
    IF i > Len(DumpKeys) THEN ""
    ELSE IF DumpKeys[i] \notin DOMAIN obj THEN DumpMembers(obj, i + 1, first)
    ELSE (IF first THEN "" ELSE ",") \o "\n        \"" \o DumpKeys[i]
         \o "\": \"" \o obj[DumpKeys[i]] \o "\""
         \o DumpMembers(obj, i + 1, FALSE)

DumpObject(obj) ==
    IF DOMAIN obj \cap {DumpKeys[i] : i \in 1..Len(DumpKeys)} = {}
    THEN "{}"
    ELSE "{" \o DumpMembers(obj, 1, TRUE) \o "\n    }"

RECURSIVE DumpItems(_, _)
DumpItems(list, i) ==
    IF i > Len(list) THEN ""
    ELSE (IF i = 1 THEN "" ELSE ",") \o "\n    " \o DumpObject(list[i])
         \o DumpItems(list, i + 1)

JsonDumps(list) ==
    IF list = <<>> THEN "[]" ELSE "[" \o DumpItems(list, 1) \o "\n]"

Returned(list) == [kind |-> "json", items |-> list, text |-> JsonDumps(list)]
ReturnedNone == [kind |-> "none"]
Raised(e) == [kind |-> "raised", exc |-> e]
NoResult == [kind |-> "pending"]

\* ---- state

VARIABLES
    \* web_search.py
    search_api,         \* CFG.search_api
    env_set,            \* whether os.environ holds the provider's keys
    query,              \* web_search's argument
    num_results,        \* web_search's argument
    response,           \* what the provider call comes back with
    ws_pc,              \* where the web_search call stands
    search_response,    \* web_search's local
    search_results,     \* web_search's local
    total_added,        \* web_search's local
    ws_out,             \* what the call ended with
    ws_calls,           \* the lookups and provider calls made so far
    \* web_scrape.py
    selenium_web_browser,   \* CFG.selenium_web_browser
    kind,               \* per call: the entry point called
    url,                \* per call: its url argument
    pc,                 \* per call: where it stands
    driver,             \* per call: the browser session it created
    executor,           \* per call: the ThreadPoolExecutor it submits to
    running,            \* per call: whether its submitted step is on a worker
    queue,              \* per executor: the calls whose step waits for a worker
    sent,               \* per call: the messages sent on its websocket
    failure,            \* per call: the step that raised, and what
    result              \* per call: what the call ended with

searchVars ==
    <<search_api, env_set, query, num_results, response, ws_pc,
      search_response, search_results, total_added, ws_out, ws_calls>>

fetchVars ==
    <<selenium_web_browser, kind, url, pc, driver, executor, running, queue,
      sent, failure, result>>

vars == <<searchVars, fetchVars>>

\* ---- serp_web_search, google_web_search

NormalizedList(list) == [kind |-> "list", items |-> list]

\* NormalizeLoop without its youtube test: every result is normalized.
RECURSIVE NormalizeLoop_KeepsYoutube(_, _, _)
NormalizeLoop_KeepsYoutube(results, i, acc) ==
    IF i > Len(results) THEN NormalizedList(acc)
    ELSE LET r == results[i] IN
         IF {"link", "title", "snippet"} \ DOMAIN r # {}
         THEN Raised("KeyError")
         ELSE NormalizeLoop_KeepsYoutube(results, i + 1,
                  Append(acc, [title |-> r["title"], href |-> r["link"],
                               body |-> r["snippet"]]))

\* The normalizing loop of serp_web_search and google_web_search: a result
\* whose link holds "youtube.com" is skipped before its title and snippet
\* are read.
RECURSIVE NormalizeLoop(_, _, _)
NormalizeLoop(results, i, acc) ==
    IF i > Len(results) THEN NormalizedList(acc)
    ELSE LET r == results[i] IN
         IF "link" \notin DOMAIN r THEN Raised("KeyError")
         ELSE IF Contains(r["link"], "youtube.com")
              THEN NormalizeLoop(results, i + 1, acc)
         ELSE IF "title" \notin DOMAIN r \/ "snippet" \notin DOMAIN r
              THEN Raised("KeyError")
         ELSE NormalizeLoop(results, i + 1,
                  Append(acc, [title |-> r["title"], href |-> r["link"],
                               body |-> r["snippet"]]))

\* list[:n] for n >= 0
Slice(list, n) == SubSeq(list, 1, IF n < Len(list) THEN n ELSE Len(list))

serp_web_search(resp, n) ==
    IF resp.status = "error" THEN Raised("ConnectionError")
    ELSE IF resp.json \in {"invalid", "null"} THEN ReturnedNone
    ELSE IF "organic" \notin DOMAIN resp.value THEN Raised("KeyError")
    ELSE LET got == NormalizeLoop(resp.value["organic"], 1, <<>>) IN
         IF got.kind = "raised" THEN got ELSE Returned(got.items)

google_web_search(resp, n) ==
    IF resp.status = "error" THEN Raised("ConnectionError")
    ELSE IF resp.json \in {"invalid", "null"} THEN ReturnedNone
    ELSE LET got == NormalizeLoop(Get(resp.value, "items", <<>>), 1, <<>>) IN
         IF got.kind = "raised" THEN got
         ELSE Returned(Slice(got.items, n))

\* ---- web_search

\* [{"href": obj[link], "body": obj[body]} for obj in results]
Comprehension(results, link, body) ==
    IF \E i \in 1..Len(results) :
           link \notin DOMAIN results[i] \/ body \notin DOMAIN results[i]
    THEN Raised("KeyError")
    ELSE NormalizedList([i \in 1..Len(results) |->
             [href |-> results[i][link], body |-> results[i][body]]])

WsReturn(out) ==
    /\ ws_pc' = "returned"
    /\ ws_out' = out

\* WsEntry without its test of the query: every call goes on to the
\* provider branches.
WsEntry_NoQueryTest ==
    /\ ws_pc = "entry"
    /\ search_results' = <<>>
    /\ search_response' = <<>>
    /\ ws_pc' = "dispatch"
    /\ UNCHANGED <<search_api, env_set, query, num_results, response,
                   total_added, ws_calls, ws_out>>
    /\ UNCHANGED fetchVars

\* Lines 13-22: the empty query returns before any branch is looked at.
WsEntry ==
    /\ ws_pc = "entry"
    /\ search_results' = <<>>
    /\ search_response' = <<>>
    /\ IF query = ""
       THEN WsReturn(Returned(<<>>))
       ELSE ws_pc' = "dispatch" /\ UNCHANGED ws_out
    /\ UNCHANGED <<search_api, env_set, query, num_results, response,
                   total_added, ws_calls>>
    /\ UNCHANGED fetchVars

\* What a client-library branch leaves behind: it raises, or it goes on to
\* the accumulating loop with search_response set.
WsBranch(calls, got) ==
    /\ ws_calls' = ws_calls \o calls
    /\ IF got.kind = "raised"
       THEN WsReturn(got) /\ UNCHANGED search_response
       ELSE /\ search_response' = got.items
            /\ ws_pc' = "loop"
            /\ UNCHANGED ws_out
    /\ total_added' = 0
    /\ UNCHANGED <<search_api, env_set, query, num_results, response,
                   search_results>>
    /\ UNCHANGED fetchVars

\* Lines 24-28.
WsTavily ==
    /\ ws_pc = "dispatch"
    /\ search_api = "tavily"
    /\ IF ~env_set
       THEN WsBranch(<<"environ">>, Raised("KeyError"))
       ELSE IF response.status = "error"
       THEN WsBranch(<<"environ", "client">>, Raised("ClientError"))
       ELSE WsBranch(<<"environ", "client">>,
                Comprehension(Get(response.value, "results", <<>>),
                              "url", "content"))

\* Lines 36-40.
WsSearx ==
    /\ ws_pc = "dispatch"
    /\ search_api = "searx"
    /\ IF ~env_set
       THEN WsBranch(<<"environ">>, Raised("KeyError"))
       ELSE IF response.status = "error"
       THEN WsBranch(<<"environ", "client">>, Raised("ClientError"))
       ELSE WsBranch(<<"environ", "client">>,
                Comprehension(response.value, "link", "snippet"))

\* Lines 42-44.
WsDuckduckgo ==
    /\ ws_pc = "dispatch"
    /\ search_api = "duckduckgo"
    /\ IF response.status = "error"
       THEN WsBranch(<<"client">>, Raised("ClientError"))
       ELSE WsBranch(<<"client">>, NormalizedList(response.value))

\* Lines 30-31: the call returns what serp_web_search returns.
WsGoogleSerp ==
    /\ ws_pc = "dispatch"
    /\ search_api = "googleSerp"
    /\ IF ~env_set
       THEN /\ ws_calls' = ws_calls \o <<"environ">>
            /\ WsReturn(Raised("KeyError"))
       ELSE /\ ws_calls' = ws_calls \o <<"environ", "http">>
            /\ WsReturn(serp_web_search(response, num_results))
    /\ UNCHANGED <<search_api, env_set, query, num_results, response,
                   search_response, search_results, total_added>>
    /\ UNCHANGED fetchVars

\* Lines 33-34: the call returns what google_web_search returns.
WsGoogleAPI ==
    /\ ws_pc = "dispatch"
    /\ search_api = "googleAPI"
    /\ IF ~env_set
       THEN /\ ws_calls' = ws_calls \o <<"environ">>
            /\ WsReturn(Raised("KeyError"))
       ELSE /\ ws_calls' = ws_calls \o <<"environ", "environ", "http">>
            /\ WsReturn(google_web_search(response, num_results))
    /\ UNCHANGED <<search_api, env_set, query, num_results, response,
                   search_response, search_results, total_added>>
    /\ UNCHANGED fetchVars

\* WsNoBranch as a lookup in a table of providers: the unknown name raises.
WsNoBranch_Raises ==
    /\ ws_pc = "dispatch"
    /\ search_api \notin Providers
    /\ WsBranch(<<>>, Raised("KeyError"))

\* Lines 24-44 when no test of the if/elif chain matches: search_response
\* keeps its initial empty list.
WsNoBranch ==
    /\ ws_pc = "dispatch"
    /\ search_api \notin Providers
    /\ WsBranch(<<>>, NormalizedList(search_response))

\* Lines 46-53, one iteration: the result is appended and counted before
\* the count is compared with num_results.
WsLoop ==
    /\ ws_pc = "loop"
    /\ IF total_added < Len(search_response)
       THEN /\ search_results' =
                Append(search_results, search_response[total_added + 1])
            /\ total_added' = total_added + 1
            /\ IF total_added' >= num_results
               THEN WsReturn(Returned(search_results'))
               ELSE UNCHANGED <<ws_pc, ws_out>>
       ELSE /\ WsReturn(Returned(search_results))
            /\ UNCHANGED <<search_results, total_added>>
    /\ UNCHANGED <<search_api, env_set, query, num_results, response,
                   search_response, ws_calls>>
    /\ UNCHANGED fetchVars

\* No web_search call is followed.
SearchIdle ==
    /\ search_api = "tavily"
    /\ env_set = TRUE
    /\ query = ""
    /\ num_results = 0
    /\ response = TransportError
    /\ ws_pc = "idle"
    /\ search_response = <<>>
    /\ search_results = <<>>
    /\ total_added = 0
    /\ ws_out = NoResult
    /\ ws_calls = <<>>

\* One web_search call, about to start.
InitSearch ==
    /\ search_api \in SearchApis
    /\ env_set \in BOOLEAN
    /\ query \in {"", "llm agents"}
    /\ num_results \in 0..MaxNum
    /\ response \in Responses(search_api)
    /\ ws_pc = "entry"
    /\ search_response = <<>>
    /\ search_results = <<>>
    /\ total_added = 0
    /\ ws_out = NoResult
    /\ ws_calls = <<>>

\* =========================================================== web_scrape.py

\* ThreadPoolExecutor(max_workers=8)
max_workers == 8

\* The keys of options_available.
options_available == {"chrome", "safari", "firefox"}

\* A configured browser name that options_available does not hold.
UnsupportedBrowser == "edge"

Browsers == options_available \cup {UnsupportedBrowser}

Urls == {"", "https://a.example/1"}

\* What summary.summarize_text answers with.
SummaryText == "a summary"

\* What format_hyperlinks answers with, cut to five links and printed.
LinksText == "[]"

StringResult(text) == [kind |-> "string", text |-> text]
TupleResult(text, drv) == [kind |-> "tuple", text |-> text, driver |-> drv]

NoFailure == [at |-> "", exc |-> ""]
Failure(step, e) == [at |-> step, exc |-> e]

LogMessage(text) == [type |-> "logs", output |-> text]
BrowsingMessage(u) == LogMessage("Browsing " \o u \o " for the question...")
GatheredMessage(u, summary) ==
    LogMessage("Information gathered from url " \o u \o ": " \o summary)

\* ---- the worker pools

\* The module's own executor (line 32); no function submits to it.
ModuleExecutor == 0

\* async_browse builds a ThreadPoolExecutor of its own on every call.
NewExecutor(c) == c

\* Work items of executor e that are on a worker.
Busy(run, ex, e) == Cardinality({d \in DOMAIN run : ex[d] = e /\ run[d]})

\* executor.submit: the item runs at once while a worker is free, and waits
\* in the executor's queue otherwise.
Submitted(pool, ex, c) ==
    IF Busy(pool.running, ex, ex[c]) < max_workers
    THEN [pool EXCEPT !.running[c] = TRUE]
    ELSE [pool EXCEPT !.queue[ex[c]] = Append(@, c)]

\* A worker ends its item and takes the next one of its executor's queue.
Finished(pool, ex, c) ==
    LET q == pool.queue[ex[c]] IN
    IF q = <<>>
    THEN [pool EXCEPT !.running[c] = FALSE]
    ELSE [running |-> [pool.running EXCEPT ![c] = FALSE, ![Head(q)] = TRUE],
          queue |-> [pool.queue EXCEPT ![ex[c]] = Tail(q)]]

Pool == [running |-> running, queue |-> queue]

SetPool(pool) ==
    /\ running' = pool.running
    /\ queue' = pool.queue

\* ---- scrape_text_with_selenium

\* How far scrape_text_with_selenium gets once the options are looked up.
ScrapeOutcomes ==
    {"driver_failed", "get_failed", "wait_timeout", "extract_failed", "ok"}

\* The empty URL is no URL a browser navigates to: driver.get fails on it
\* if the driver was created at all.
OutcomesFor(u) ==
    IF u = "" THEN {"driver_failed", "get_failed"} ELSE ScrapeOutcomes

\* Lines 109-174: the driver the function created (none, or an open one)
\* and the exception it raised ("" when it returned).  The options lookup
\* comes before the driver is created; every later failure leaves the
\* created driver open.
scrape_text_with_selenium(browser, outcome) ==
    IF browser \notin options_available
    THEN [driver |-> "none", exc |-> "KeyError"]
    ELSE CASE outcome = "driver_failed" ->
                [driver |-> "none", exc |-> "WebDriverException"]
           [] outcome = "get_failed" ->
                [driver |-> "open", exc |-> "WebDriverException"]
           [] outcome = "wait_timeout" ->
                [driver |-> "open", exc |-> "TimeoutException"]
           [] outcome = "extract_failed" ->
                [driver |-> "open", exc |-> "JavascriptException"]
           [] OTHER -> [driver |-> "open", exc |-> ""]

\* ---- the fetch calls

Calls == DOMAIN pc

\* Calls are numbered in the order they are made.
NextCall(c) ==
    /\ pc[c] = "idle"
    /\ \A d \in Calls : d < c => pc[d] # "idle"

\* The step of call c is being executed: in the caller's thread for
\* browse_website, on a worker for async_browse.
Executing(c, step) ==
    /\ pc[c] = step
    /\ kind[c] = "async_browse" => running[c]

\* async_browse's handler, lines 77-79.
ErrorText(u, e) == "Error processing the url " \o u \o ": " \o e

\* An exception e raised in step `step` of call c.  async_browse catches it
\* and returns the error text; browse_website has no handler, so it leaves
\* the call.
Fail(c, step, e) ==
    /\ failure' = [failure EXCEPT ![c] = Failure(step, e)]
    /\ pc' = [pc EXCEPT ![c] = "returned"]
    /\ result' = [result EXCEPT ![c] =
           IF kind[c] = "async_browse"
           THEN StringResult(ErrorText(url[c], e))
           ELSE Raised(e)]

\* The step of call c ended and the call goes on to step `next`:
\* async_browse awaits the worker and submits the next step.
Proceed(c, next) ==
    /\ pc' = [pc EXCEPT ![c] = next]
    /\ IF kind[c] = "async_browse"
       THEN SetPool(Submitted(Finished(Pool, executor, c), executor, c))
       ELSE UNCHANGED <<running, queue>>
    /\ UNCHANGED <<failure, result>>

\* The step of call c ended and the call submits nothing more.
Release(c) ==
    IF kind[c] = "async_browse"
    THEN SetPool(Finished(Pool, executor, c))
    ELSE UNCHANGED <<running, queue>>

\* Lines 82-93: browse_website up to its call of scrape_text_with_selenium.
BrowseWebsite(c, u) ==
    /\ NextCall(c)
    /\ kind' = [kind EXCEPT ![c] = "browse_website"]
    /\ url' = [url EXCEPT ![c] = u]
    /\ IF u = ""
       THEN /\ pc' = [pc EXCEPT ![c] = "returned"]
            /\ result' = [result EXCEPT ![c] = TupleResult(
                   "No URL was given, so the request was cancelled.", "None")]
       ELSE /\ pc' = [pc EXCEPT ![c] = "scrape"]
            /\ UNCHANGED result
    /\ UNCHANGED <<selenium_web_browser, driver, executor, running, queue,
                   sent, failure>>
    /\ UNCHANGED searchVars

\* Lines 38-63: async_browse up to its first run_in_executor.  The first
\* send_json is outside the try block.
AsyncBrowse(c, u, sendOk) ==
    /\ NextCall(c)
    /\ kind' = [kind EXCEPT ![c] = "async_browse"]
    /\ url' = [url EXCEPT ![c] = u]
    /\ executor' = [executor EXCEPT ![c] = NewExecutor(c)]
    /\ IF sendOk
       THEN /\ sent' = [sent EXCEPT ![c] = Append(@, BrowsingMessage(u))]
            /\ pc' = [pc EXCEPT ![c] = "scrape"]
            /\ SetPool(Submitted(Pool, executor', c))
            /\ UNCHANGED <<failure, result>>
       ELSE /\ failure' = [failure EXCEPT ![c] =
                   Failure("send", "WebSocketDisconnect")]
            /\ pc' = [pc EXCEPT ![c] = "returned"]
            /\ result' = [result EXCEPT ![c] = Raised("WebSocketDisconnect")]
            /\ UNCHANGED <<sent, running, queue>>
    /\ UNCHANGED <<selenium_web_browser, driver>>
    /\ UNCHANGED searchVars

\* scrape_text_with_selenium(url) ends: line 93, or lines 61-63.
ScrapeDone(c, outcome) ==
    /\ Executing(c, "scrape")
    /\ outcome \in OutcomesFor(url[c])
    /\ LET got == scrape_text_with_selenium(selenium_web_browser, outcome) IN
       /\ driver' = [driver EXCEPT ![c] = got.driver]
       /\ IF got.exc # ""
          THEN Fail(c, "scrape", got.exc) /\ Release(c)
          ELSE Proceed(c, "add_header")
    /\ UNCHANGED <<selenium_web_browser, kind, url, executor, sent>>
    /\ UNCHANGED searchVars

\* add_header(driver) ends: line 94, or line 64.
HeaderDone(c, ok) ==
    /\ Executing(c, "add_header")
    /\ IF ok
       THEN Proceed(c, "summarize")
       ELSE Fail(c, "add_header", "JavascriptException") /\ Release(c)
    /\ UNCHANGED <<selenium_web_browser, kind, url, driver, executor, sent>>
    /\ UNCHANGED searchVars

\* SummarizeDone with the second send_json moved out of the try block's
\* body: async_browse sends the gathered message when summarizing failed too.
SummarizeDone_AlwaysSends(c, ok, sendOk) ==
    /\ Executing(c, "summarize")
    /\ IF kind[c] = "browse_website"
       THEN IF ok
            THEN /\ pc' = [pc EXCEPT ![c] = "links"]
                 /\ UNCHANGED <<running, queue, sent, failure, result>>
            ELSE /\ Fail(c, "summarize", "SummarizerError")
                 /\ UNCHANGED <<running, queue, sent>>
       ELSE /\ sent' = [sent EXCEPT ![c] =
                   Append(@, GatheredMessage(url[c], SummaryText))]
            /\ Release(c)
            /\ IF ok
               THEN /\ pc' = [pc EXCEPT ![c] = "returned"]
                    /\ result' = [result EXCEPT ![c] = StringResult(
                           "Information gathered from url " \o url[c] \o ": "
                           \o SummaryText)]
                    /\ UNCHANGED failure
               ELSE Fail(c, "summarize", "SummarizerError")
    /\ UNCHANGED <<selenium_web_browser, kind, url, driver, executor>>
    /\ UNCHANGED searchVars

\* summary.summarize_text(...) ends: line 95, or lines 65-79.  async_browse
\* then sends its second message, inside the try block, and returns.
SummarizeDone(c, ok, sendOk) ==
    /\ Executing(c, "summarize")
    /\ IF ~ok
       THEN /\ Fail(c, "summarize", "SummarizerError")
            /\ Release(c)
            /\ UNCHANGED sent
       ELSE IF kind[c] = "browse_website"
       THEN /\ pc' = [pc EXCEPT ![c] = "links"]
            /\ UNCHANGED <<running, queue, sent, failure, result>>
       ELSE IF ~sendOk
       THEN /\ Fail(c, "send", "WebSocketDisconnect")
            /\ Release(c)
            /\ UNCHANGED sent
       ELSE /\ sent' = [sent EXCEPT ![c] =
                   Append(@, GatheredMessage(url[c], SummaryText))]
            /\ pc' = [pc EXCEPT ![c] = "returned"]
            /\ result' = [result EXCEPT ![c] = StringResult(
                   "Information gathered from url " \o url[c] \o ": "
                   \o SummaryText)]
            /\ Release(c)
            /\ UNCHANGED failure
    /\ UNCHANGED <<selenium_web_browser, kind, url, driver, executor>>
    /\ UNCHANGED searchVars

\* Lines 97-106: browse_website extracts the links, closes the browser and
\* returns.
LinksDone(c, ok) ==
    /\ Executing(c, "links")
    /\ kind[c] = "browse_website"
    /\ IF ok
       THEN /\ driver' = [driver EXCEPT ![c] = "quit"]
            /\ pc' = [pc EXCEPT ![c] = "returned"]
            /\ result' = [result EXCEPT ![c] = TupleResult(
                   "Answer gathered from website: " \o SummaryText
                   \o " \n \n Links: " \o LinksText, "driver")]
            /\ UNCHANGED failure
       ELSE /\ Fail(c, "links", "WebDriverException")
            /\ UNCHANGED driver
    /\ UNCHANGED <<selenium_web_browser, kind, url, executor, running, queue,
                   sent>>
    /\ UNCHANGED searchVars

\* n fetch calls, none made yet.
FetchCalls(n) ==
    /\ kind = [c \in 1..n |-> "none"]
    /\ url = [c \in 1..n |-> ""]
    /\ pc = [c \in 1..n |-> "idle"]
    /\ driver = [c \in 1..n |-> "none"]
    /\ executor = [c \in 1..n |-> ModuleExecutor]
    /\ running = [c \in 1..n |-> FALSE]
    /\ queue = [e \in 0..n |-> <<>>]
    /\ sent = [c \in 1..n |-> <<>>]
    /\ failure = [c \in 1..n |-> NoFailure]
    /\ result = [c \in 1..n |-> NoResult]

InitFetch ==
    /\ selenium_web_browser \in Browsers
    /\ FetchCalls(NumCalls)

\* ============================================================ specifications

\* One web_search call, or NumCalls fetch calls, or both in a process whose
\* configuration names neither a supported provider nor a supported browser.
Init ==
    \/ InitSearch /\ selenium_web_browser = "chrome" /\ FetchCalls(0)
    \/ SearchIdle /\ InitFetch
    \/ /\ InitSearch /\ search_api = UnsupportedProvider
       /\ InitFetch /\ selenium_web_browser = UnsupportedBrowser

Next ==
    \/ WsEntry
    \/ WsTavily
    \/ WsGoogleSerp
    \/ WsGoogleAPI
    \/ WsSearx
    \/ WsDuckduckgo
    \/ WsNoBranch
    \/ WsLoop
    \/ \E c \in Calls, u \in Urls : BrowseWebsite(c, u)
    \/ \E c \in Calls, u \in Urls, sendOk \in BOOLEAN : AsyncBrowse(c, u, sendOk)
    \/ \E c \in Calls, outcome \in ScrapeOutcomes : ScrapeDone(c, outcome)
    \/ \E c \in Calls, ok \in BOOLEAN : HeaderDone(c, ok)
    \/ \E c \in Calls, ok \in BOOLEAN, sendOk \in BOOLEAN : SummarizeDone(c, ok, sendOk)
    \/ \E c \in Calls, ok \in BOOLEAN : LinksDone(c, ok)

Spec == Init /\ [][Next]_vars

\* NumPoolCalls concurrent async_browse calls of one URL, with a supported
\* browser and no step failing.
PoolUrl == "https://a.example/1"

InitPool ==
    /\ SearchIdle
    /\ selenium_web_browser = "chrome"
    /\ FetchCalls(NumPoolCalls)

NextPool ==
    \/ \E c \in Calls : AsyncBrowse(c, PoolUrl, TRUE)
    \/ \E c \in Calls : ScrapeDone(c, "ok")
    \/ \E c \in Calls : HeaderDone(c, TRUE)
    \/ \E c \in Calls : SummarizeDone(c, TRUE, TRUE)

SpecPool == InitPool /\ [][NextPool]_vars

\* ==================================================================== claims

\* The result list the provider sent, when it sent one.
ProviderResults ==
    IF response.status # "text" \/ response.json # "value" THEN <<>>
    ELSE IF ResultsKey(search_api) # ""
    THEN Get(response.value, ResultsKey(search_api), <<>>)
    ELSE response.value

Min(a, b) == IF a < b THEN a ELSE b

AsyncCalls == {c \in Calls : kind[c] = "async_browse"}

FetchSteps == {"scrape", "add_header", "summarize", "links"}

\* C1: for every provider, every provider response and every num_results
\* n >= 0, the array web_search returns has at most n entries.
C1_AtMostNumResults ==
    (ws_pc = "returned" /\ ws_out.kind = "json")
        => Len(ws_out.items) <= num_results

\* C2: a fetch call that opened a browser session has released it
\* (driver.quit) when it returns, on success and on failure.
C2_SessionReleased ==
    \A c \in Calls :
        (pc[c] = "returned" /\ driver[c] # "none") => driver[c] = "quit"

\* C3: an exception raised while opening the session, navigating,
\* extracting, injecting the overlay, summarizing or extracting links is
\* caught inside the fetch call and returned as an error string holding the
\* URL and the exception message, for browse_website and async_browse alike.
C3_FailureReturnedAsString ==
    \A c \in Calls :
        (pc[c] = "returned" /\ failure[c].at \in FetchSteps)
            => /\ result[c].kind # "raised"
               /\ Contains(result[c].text, url[c])
               /\ Contains(result[c].text, failure[c].exc)

\* C4: a fetch call with the empty URL returns an explanatory string and
\* never opens a browser session, for browse_website and async_browse alike.
C4_EmptyUrlOpensNoSession ==
    \A c \in Calls :
        (kind[c] # "none" /\ url[c] = "" /\ failure[c].at # "send")
            => /\ driver[c] = "none"
               /\ pc[c] = "returned" => result[c].kind \in {"string", "tuple"}

\* A result of the provider's list lacks a field the normalizing loop reads.
LacksField ==
    \E i \in 1..Len(ProviderResults) :
        {"link", "title", "snippet"} \ DOMAIN ProviderResults[i] # {}

\* C5: in the serp_web_search and google_web_search branches a transport
\* failure, a body that is not JSON, or a response or result lacking an
\* expected field never raises to the caller: the call ends with an empty
\* result.
C5_ProviderFailureGivesEmptyResult ==
    ( /\ ws_pc = "returned"
      /\ search_api \in HttpProviders
      /\ query # "" /\ env_set
      /\ \/ response.status = "error"
         \/ response.status = "text" /\ response.json = "invalid"
         \/ /\ response.status = "text" /\ response.json = "value"
            /\ \/ search_api = "googleSerp"
                  /\ "organic" \notin DOMAIN response.value
               \/ LacksField )
        => /\ ws_out.kind # "raised"
           /\ ws_out.kind = "json" => ws_out.items = <<>>

\* C6 as stated: with an unsupported provider name web_search ends in a
\* lookup fault instead of a result, and with an unsupported browser name
\* scrape_text_with_selenium ends in a lookup fault before any browser
\* session is created.
C6_UnsupportedProviderRaises ==
    /\ (search_api \notin Providers /\ query # "" /\ ws_pc = "returned")
           => ws_out.kind = "raised"
    /\ selenium_web_browser \notin options_available
           => \A c \in Calls :
                  /\ driver[c] = "none"
                  /\ failure[c].at = "scrape" => failure[c].exc = "KeyError"

\* C6 as amended: with an unsupported provider name no branch of web_search
\* matches, so it makes no key lookup and no provider call and returns the
\* empty JSON array; with an unsupported browser name
\* scrape_text_with_selenium raises KeyError before any browser session is
\* created, and no later step of the fetch call is reached.
C6_UnsupportedProviderReturnsEmpty ==
    /\ (search_api \notin Providers /\ ws_pc = "returned")
           => /\ ws_out.kind = "json"
              /\ ws_out.items = <<>>
              /\ ws_out.text = "[]"
              /\ ws_calls = <<>>
    /\ selenium_web_browser \notin options_available
           => \A c \in Calls :
                  /\ driver[c] = "none"
                  /\ pc[c] \in {"idle", "scrape", "returned"}
                  /\ failure[c].at = "scrape" => failure[c].exc = "KeyError"
                  /\ (pc[c] = "returned" /\ failure[c].at # "scrape")
                         => \/ kind[c] = "browse_website" /\ url[c] = ""
                            \/ failure[c].at = "send" /\ sent[c] = <<>>

\* Both configured names are unsupported: a web_search call with a query has
\* returned and a fetch call has ended in scrape_text_with_selenium.
C6_Witness ==
    /\ search_api \notin Providers /\ query # "" /\ ws_pc = "returned"
    /\ selenium_web_browser \notin options_available
    /\ \E c \in Calls :
           /\ kind[c] = "async_browse"
           /\ pc[c] = "returned"
           /\ failure[c] = Failure("scrape", "KeyError")

C8_YoutubeFilter ==
    ( /\ ws_pc = "returned" /\ ws_out.kind = "json"
      /\ search_api \in Providers /\ query # "" )
        => LET out == ws_out.items
               got == ProviderResults
           IN  IF search_api \in HttpProviders
               THEN LET kept == SelectSeq(got,
                            LAMBDA r : ~Contains(r["link"], "youtube.com"))
                    IN  /\ \A i \in 1..Len(out) :
                               ~Contains(out[i]["href"], "youtube.com")
                        /\ Len(out) = IF search_api = "googleSerp"
                                      THEN Len(kept)
                                      ELSE Min(num_results, Len(kept))
                        /\ \A i \in 1..Len(out) :
                               /\ out[i]["href"] = kept[i]["link"]
                               /\ out[i]["title"] = kept[i]["title"]
                               /\ out[i]["body"] = kept[i]["snippet"]
               ELSE \A i \in 1..Len(got) :
                        ( /\ i <= num_results
                          /\ LinkKey(search_api) \in DOMAIN got[i]
                          /\ Contains(got[i][LinkKey(search_api)],
                                      "youtube.com") )
                            => /\ i <= Len(out)
                               /\ out[i]["href"] = got[i][LinkKey(search_api)]

\* googleSerp sent three results, the second one from youtube, and
\* web_search returned the other two.
C8_Witness ==
    /\ ws_pc = "returned" /\ ws_out.kind = "json"
    /\ search_api = "googleSerp" /\ query # ""
    /\ Len(ProviderResults) = 3
    /\ Contains(ProviderResults[2]["link"], "youtube.com")
    /\ Len(ws_out.items) = 2
    /\ ws_out.items[2]["href"] = ProviderResults[3]["link"]

\* C9: for every configured provider, web_search with the empty query makes
\* no key lookup and no provider call, and returns the text "[]".
C9_EmptyQuery ==
    query = ""
        => /\ ws_calls = <<>>
           /\ ws_pc \in {"idle", "entry", "returned"}
           /\ ws_pc = "returned" => ws_out.kind = "json" /\ ws_out.text = "[]"

\* web_search("") returned with googleSerp configured and a provider that
\* would have answered with results.
C9_Witness ==
    /\ query = "" /\ ws_pc = "returned"
    /\ search_api = "googleSerp" /\ env_set
    /\ Len(ProviderResults) > 0

\* C10: the offloaded steps of all concurrent async_browse calls share one
\* pool of max_workers slots: at most max_workers of them run at a time.
C10_AtMostMaxWorkersRunning ==
    Cardinality({c \in Calls : running[c]}) <= max_workers

====
